---------------------------- MODULE Spec2Model ----------------------------
(***************************************************************************)
(* Market Mood Monitor: the risk score calculator (data/calculator.py),    *)
(* its configuration tables (utils/config.py) and the score history store  *)
(* (data/score_history.py).                                                *)
(*                                                                         *)
(* Numbers.  Python floats are modelled by exact decimal fixed point:      *)
(*   - component values (fear & greed, momentum, volume health, breadth)   *)
(*     are whole points;                                                   *)
(*   - the weights are hundredths (0.35 is 35), so a weighted sum is a     *)
(*     number of hundredths of a point;                                    *)
(*   - a score rounded with round(x, 1) is a number of tenths of a point;  *)
(*   - a 24h change is a number of 1/ChangeDen percent.                    *)
(* Python values that are not numbers are the tagged values Null (None),   *)
(* Bad (a value of a non-numeric type, e.g. a str) and NoKey (the key is   *)
(* absent from the dict).                                                  *)
(***************************************************************************)
EXTENDS Integers, Sequences, FiniteSets, TLC

VARIABLES
    market_data,    \* the snapshot handed to calculate_risk_score
    risk_score,     \* local risk_score after line 154 (hundredths), or Null
    result,         \* the dict calculate_risk_score returned, or Null
    raised,         \* the exception raised inside the try block, or "none"
    propagated,     \* the exception that escaped calculate_risk_score, or "none"
    probe,          \* arguments and return value of a bucket function call
    clock,          \* datetime.now(), in days
    file,           \* data/score_history.json
    saves,          \* number of save_score calls made so far
    last_save,      \* the last save_score call: arguments, entry, time; or Null
    ret,            \* what the last read of the history returned; Null after a write
    cache,          \* MarketDataFetcher.cache
    metrics_file,   \* data/metrics_cache.json
    fetches,        \* number of fetch_all_data calls made so far
    call,           \* the last fetch_all_data call: responses, sub-fetch values, outcome
    writers,        \* each concurrent save_score call: position and locals
    events,         \* the steps the concurrent save_score calls have taken
    app_pc,         \* position of main() in the refresh cycle
    cycles          \* number of refresh cycles started

calc_vars == <<market_data, risk_score, result, raised, propagated>>

hist_vars == <<clock, file, saves, last_save, ret>>

fetch_vars == <<cache, metrics_file, fetches, call>>

race_vars == <<writers, events>>

app_vars == <<app_pc, cycles>>

vars == <<market_data, risk_score, result, raised, propagated, probe,
          clock, file, saves, last_save, ret,
          cache, metrics_file, fetches, call, writers, events, app_pc, cycles>>

Null == [tag |-> "None"]
Bad == [tag |-> "str"]
NoKey == [tag |-> "absent"]

Num(n) == [tag |-> "num", n |-> n]
IsNum(v) == v.tag = "num"

(***************************************************************************)
(* Bounds of the model.                                                    *)
(***************************************************************************)
GridStep == 25       \* percent inputs are the multiples of GridStep ...
MaxExcess == 25      \* ... from -MaxExcess to 100 + MaxExcess
ChangeDen == 2       \* a 24h change is counted in 1/ChangeDen percent
MaxChange == 15      \* 24h changes range over -MaxChange% .. +MaxChange%
MaxRatioPoints == 10 \* volume and market cap range over 0 .. MaxRatioPoints
MaxSaves == 4        \* save_score is called at most MaxSaves times
TicksPerDay == 2     \* the resolution of datetime.now(): ticks in a day
MaxCutoff == 11      \* candidate cutoffs range over -MaxCutoff .. MaxCutoff
MaxFetches == 3      \* fetch_all_data is called at most MaxFetches times
MaxCycles == 2       \* main() runs at most MaxCycles refresh cycles

(***************************************************************************)
(* utils/config.py                                                         *)
(***************************************************************************)
\* mutant: the fear & greed and momentum weights exchanged
WeightsExchanged ==
    [fear_greed |-> 25, btc_momentum |-> 35, volume_health |-> 20, market_breadth |-> 20]

RISK_SCORE_WEIGHTS ==
    [fear_greed |-> 35, btc_momentum |-> 25, volume_health |-> 20, market_breadth |-> 20]

\* mutant: the Risk Off band starts at 32, leaving 31 in no band
ThresholdsWithGap == <<
    [min |-> 0,  max |-> 30,  status |-> "Extreme Risk Off"],
    [min |-> 32, max |-> 45,  status |-> "Risk Off"],
    [min |-> 46, max |-> 60,  status |-> "Neutral"],
    [min |-> 61, max |-> 80,  status |-> "Risk On"],
    [min |-> 81, max |-> 100, status |-> "Extreme Risk On"] >>

RISK_SCORE_THRESHOLDS == <<
    [min |-> 0,  max |-> 30,  status |-> "Extreme Risk Off"],
    [min |-> 31, max |-> 45,  status |-> "Risk Off"],
    [min |-> 46, max |-> 60,  status |-> "Neutral"],
    [min |-> 61, max |-> 80,  status |-> "Risk On"],
    [min |-> 81, max |-> 100, status |-> "Extreme Risk On"] >>


(***************************************************************************)
(* Python helpers: exceptions and dict access.                             *)
(***************************************************************************)
Raise(e) == [tag |-> "raise", exc |-> e]
IsRaise(v) == v.tag = "raise"

\* d.get(key, default) where v is the stored value or NoKey
DictGet(v, default) == IF v = NoKey THEN default ELSE v

\* x or {} : a falsy x (None) becomes the empty dict, whose every key is absent
EmptyDict == [tag |-> "emptydict"]
OrEmptyDict(x) == IF x = Null THEN EmptyDict ELSE x

\* d.get(key, default) on the value d: a dict, the empty dict, or a non-dict
\* object (AttributeError: no attribute 'get')
GetField(d, key, default) ==
    IF d.tag = "dict" THEN DictGet(d[key], default)
    ELSE IF d.tag = "emptydict" THEN default
    ELSE Raise("AttributeError")

(***************************************************************************)
(* data/calculator.py                                                      *)
(***************************************************************************)
\* mutant: the cutoffs taken as inclusive (>= instead of >)
MomentumBucketInclusive(c) ==
    IF c >= 10 * ChangeDen THEN 90
    ELSE IF c >= 5 * ChangeDen THEN 75
    ELSE IF c >= 2 * ChangeDen THEN 65
    ELSE IF c >= 0 THEN 55
    ELSE IF c >= (0 - 2) * ChangeDen THEN 45
    ELSE IF c >= (0 - 5) * ChangeDen THEN 35
    ELSE IF c >= (0 - 10) * ChangeDen THEN 25
    ELSE 10

\* mutant: the scores of the (0, 2] and (2, 5] buckets exchanged
MomentumBucketExchanged(c) ==
    IF c > 10 * ChangeDen THEN 90
    ELSE IF c > 5 * ChangeDen THEN 75
    ELSE IF c > 2 * ChangeDen THEN 55
    ELSE IF c > 0 THEN 65
    ELSE IF c > (0 - 2) * ChangeDen THEN 45
    ELSE IF c > (0 - 5) * ChangeDen THEN 35
    ELSE IF c > (0 - 10) * ChangeDen THEN 25
    ELSE 10

\* lines 34-49, for a numeric change c counted in 1/ChangeDen percent
MomentumBucket(c) ==
    IF c > 10 * ChangeDen THEN 90
    ELSE IF c > 5 * ChangeDen THEN 75
    ELSE IF c > 2 * ChangeDen THEN 65
    ELSE IF c > 0 THEN 55
    ELSE IF c > (0 - 2) * ChangeDen THEN 45
    ELSE IF c > (0 - 5) * ChangeDen THEN 35
    ELSE IF c > (0 - 10) * ChangeDen THEN 25
    ELSE 10

\* calculate_btc_momentum(btc_price, price_change_24h): comparing None or a
\* str with an int raises TypeError
calculate_btc_momentum(price_change_24h) ==
    IF IsRaise(price_change_24h) THEN price_change_24h
    ELSE IF ~IsNum(price_change_24h) THEN Raise("TypeError")
    ELSE Num(MomentumBucket(price_change_24h.n))

\* line 67: the ratio in percent as a fraction <<numerator, denominator>>
VolumeToMcapRatio(current_volume, total_market_cap) ==
    IF total_market_cap > 0 THEN <<current_volume * 100, total_market_cap>> ELSE <<0, 1>>

\* ratio > k, for a fraction with a positive denominator
RatioGT(ratio, k) == ratio[1] > k * ratio[2]

\* mutant: the lowest bucket scores above its neighbour
VolumeBucketExchanged(ratio) ==
    IF RatioGT(ratio, 8) THEN 95
    ELSE IF RatioGT(ratio, 6) THEN 80
    ELSE IF RatioGT(ratio, 4) THEN 65
    ELSE IF RatioGT(ratio, 2) THEN 35
    ELSE 50

\* lines 69-78
VolumeBucket(ratio) ==
    IF RatioGT(ratio, 8) THEN 95
    ELSE IF RatioGT(ratio, 6) THEN 80
    ELSE IF RatioGT(ratio, 4) THEN 65
    ELSE IF RatioGT(ratio, 2) THEN 50
    ELSE 35

\* calculate_volume_health(current_volume, market_data): market_data is the
\* global dict (or the empty dict); total_market_cap_usd defaults to 1.  The
\* conditional expression tests total_market_cap > 0 first (TypeError on None)
\* and divides only when it holds (TypeError on a None volume).
calculate_volume_health(current_volume, global_data) ==
    LET total_market_cap == GetField(global_data, "total_market_cap_usd", Num(1))
    IN  IF IsRaise(current_volume) THEN current_volume
        ELSE IF IsRaise(total_market_cap) THEN total_market_cap
        ELSE IF ~IsNum(total_market_cap) THEN Raise("TypeError")
        ELSE IF total_market_cap.n > 0 /\ ~IsNum(current_volume) THEN Raise("TypeError")
        ELSE IF total_market_cap.n > 0
             THEN Num(VolumeBucket(VolumeToMcapRatio(current_volume.n, total_market_cap.n)))
        ELSE Num(VolumeBucket(VolumeToMcapRatio(0, total_market_cap.n)))

\* the bands of RISK_SCORE_THRESHOLDS with min <= score <= max (line 94), for
\* a score in hundredths
MatchingBands(score) ==
    {i \in DOMAIN RISK_SCORE_THRESHOLDS :
        /\ RISK_SCORE_THRESHOLDS[i].min * 100 <= score
        /\ score <= RISK_SCORE_THRESHOLDS[i].max * 100}

\* get_risk_status(score): the first matching band in table order, else "Unknown"
get_risk_status(score) ==
    IF MatchingBands(score) = {} THEN "Unknown"
    ELSE LET first == CHOOSE i \in MatchingBands(score) :
                          \A j \in MatchingBands(score) : i <= j
         IN  RISK_SCORE_THRESHOLDS[first].status

\* mutant: the upper clamp forgotten
ClampLowerOnly(x) == IF x < 0 THEN 0 ELSE x

\* max(0, min(100, risk_score)), line 154, in hundredths
Clamp(x) == IF x < 0 THEN 0 ELSE IF x > 10000 THEN 10000 ELSE x

\* round(x, 1): from hundredths to tenths.  Python rounds the binary float
\* nearest to the decimal value, so a decimal tie (x.x5) goes to either
\* neighbour depending on the float's representation error.
Round1(x) ==
    LET lo == x \div 10
        r == x % 10
    IN  IF r < 5 THEN {lo} ELSE IF r > 5 THEN {lo + 1} ELSE {lo, lo + 1}

\* x * weight for a component value x: a None or str operand raises TypeError
Weighted(x, weight) ==
    IF IsRaise(x) THEN x
    ELSE IF ~IsNum(x) THEN Raise("TypeError")
    ELSE Num(x.n * weight)

\* the first exception among the values vs (evaluation order), or Null
FirstRaise(vs) ==
    IF \E i \in DOMAIN vs : IsRaise(vs[i])
    THEN vs[CHOOSE i \in DOMAIN vs : IsRaise(vs[i]) /\ \A j \in 1..(i - 1) : ~IsRaise(vs[j])]
    ELSE Null

\* mutant: the default taken for every falsy breadth ("or 50"), 0 included
BreadthOrDefaultFalsy(breadth) ==
    IF breadth = Null \/ breadth = Num(0) THEN Num(50) ELSE breadth

\* line 128: market_breadth if it is not None, else 50
BreadthOrDefault(breadth) == IF breadth = Null THEN Num(50) ELSE breadth

\* lines 124-156: the body of the try block, up to the status lookup.  The
\* value is Raise(e) for the first exception raised, or the locals
\* components, risk_score (hundredths, after the clamp) and status.
TryBlock(md) ==
    LET fear_greed_data == OrEmptyDict(GetField(md, "fear_greed", Null))
        fear_greed_value ==
            IF IsRaise(fear_greed_data) THEN fear_greed_data
            ELSE GetField(fear_greed_data, "value", Num(50))
        btc_data == OrEmptyDict(GetField(md, "bitcoin", Null))
        global_data == OrEmptyDict(GetField(md, "global_market", Null))
        breadth_field == GetField(md, "market_breadth", Null)
        market_breadth == BreadthOrDefault(breadth_field)
        btc_momentum ==
            IF IsRaise(btc_data) THEN btc_data
            ELSE calculate_btc_momentum(GetField(btc_data, "price_change_24h", Num(0)))
        volume_health ==
            IF IsRaise(global_data) THEN global_data
            ELSE calculate_volume_health(
                     GetField(global_data, "total_volume_24h_usd", Num(0)), global_data)
        terms == << Weighted(fear_greed_value, RISK_SCORE_WEIGHTS.fear_greed),
                    Weighted(btc_momentum, RISK_SCORE_WEIGHTS.btc_momentum),
                    Weighted(volume_health, RISK_SCORE_WEIGHTS.volume_health),
                    Weighted(market_breadth, RISK_SCORE_WEIGHTS.market_breadth) >>
        first_exc == FirstRaise(<<fear_greed_data, fear_greed_value, btc_data, global_data,
                               breadth_field, btc_momentum, volume_health>> \o terms)
    IN  IF first_exc # Null THEN first_exc
        ELSE LET sum == terms[1].n + terms[2].n + terms[3].n + terms[4].n
             IN  [tag |-> "ok",
                  components |-> [fear_greed |-> fear_greed_value.n,
                                  btc_momentum |-> btc_momentum.n,
                                  volume_health |-> volume_health.n,
                                  market_breadth |-> market_breadth.n],
                  risk_score |-> Clamp(sum),
                  status |-> get_risk_status(Clamp(sum))]

\* mutant: except TypeError
CatchesTypeErrorOnly(exc) == exc = "TypeError"

\* line 174, except Exception: TypeError, AttributeError, ... are all
\* subclasses of Exception
ExceptClauseCatches(exc) == exc \in {"TypeError", "AttributeError", "ValueError", "KeyError"}

\* lines 176-186: the fallback dict (score in tenths)
FallbackResult == [score |-> 500, status |-> "Error", components |-> Null]

(***************************************************************************)
(* The snapshots calculate_risk_score is applied to.                       *)
(***************************************************************************)
PercentGrid == {p \in (0 - MaxExcess)..(100 + MaxExcess) : p % GridStep = 0}

\* one 24h change in each momentum bucket, in 1/ChangeDen percent
ChangeSamples == {c * ChangeDen : c \in {0 - MaxChange, 0 - 7, 0 - 3, 0 - 1, 1, 3, 7, MaxChange}}

FearGreedInputs ==
    {Null, Bad} \cup
    {[tag |-> "dict", value |-> v] :
        v \in {NoKey, Null, Bad} \cup {Num(p) : p \in PercentGrid}}

BitcoinInputs ==
    {Null} \cup
    {[tag |-> "dict", price_change_24h |-> v] :
        v \in {NoKey, Null} \cup {Num(c) : c \in ChangeSamples}}

GlobalInputs ==
    {Null} \cup
    {[tag |-> "dict", total_volume_24h_usd |-> v, total_market_cap_usd |-> c] :
        v \in {NoKey, Null, Num(1), Num(5), Num(MaxRatioPoints)},
        c \in {NoKey, Null, Num(0), Num(100)}}

BreadthInputs == {Null, Bad} \cup {Num(p) : p \in PercentGrid}

Snapshots ==
    {Null} \cup
    {[tag |-> "dict", fear_greed |-> fg, bitcoin |-> btc, global_market |-> g,
      market_breadth |-> mb] :
        fg \in FearGreedInputs, btc \in BitcoinInputs, g \in GlobalInputs,
        mb \in BreadthInputs}

NoProbe == [fn |-> "none"]

\* the history store before any use: no file, no call made
MissingFile == [kind |-> "missing"]

\* a fetcher just constructed and never called: empty cache, no cache file
FetcherIdle ==
    /\ cache = [tag |-> "emptydict"]
    /\ metrics_file = [kind |-> "missing"]
    /\ fetches = 0
    /\ call = [tag |-> "None"]

\* no concurrent save_score call
WritersIdle ==
    /\ writers = <<>>
    /\ events = <<>>

\* main() not running
AppIdle ==
    /\ app_pc = "idle"
    /\ cycles = 0

HistoryIdle ==
    /\ clock = 0
    /\ file = MissingFile
    /\ saves = 0
    /\ last_save = Null
    /\ ret = Null

(***************************************************************************)
(* SpecCalc: calculate_risk_score applied to a snapshot.                   *)
(***************************************************************************)
InitCalc ==
    /\ market_data \in Snapshots
    /\ risk_score = Null
    /\ result = Null
    /\ raised = "none"
    /\ propagated = "none"
    /\ probe = NoProbe
    /\ HistoryIdle
    /\ FetcherIdle
    /\ WritersIdle
    /\ AppIdle

\* calculate_risk_score(market_data), lines 123-186
CalculateRiskScore ==
    /\ result = Null
    /\ propagated = "none"
    /\ LET body == TryBlock(market_data)
       IN  IF ~IsRaise(body)
           THEN /\ raised' = "none"
                /\ risk_score' = Num(body.risk_score)
                /\ \E score \in Round1(body.risk_score) :
                       result' = [score |-> score, status |-> body.status,
                                  components |-> body.components]
                /\ propagated' = "none"
           ELSE IF ExceptClauseCatches(body.exc)
           THEN /\ raised' = body.exc
                /\ risk_score' = Null
                /\ result' = FallbackResult
                /\ propagated' = "none"
           ELSE /\ raised' = body.exc
                /\ risk_score' = Null
                /\ result' = Null
                /\ propagated' = body.exc
    /\ UNCHANGED <<market_data, probe, hist_vars,
                   fetch_vars, race_vars, app_vars>>

NextCalc == CalculateRiskScore

SpecCalc == InitCalc /\ [][NextCalc]_vars

(***************************************************************************)
(* SpecBuckets: the pure functions get_risk_status, calculate_btc_momentum *)
(* and calculate_volume_health applied to their arguments.  A probe holds  *)
(* the function called, its arguments and, after the call, what it         *)
(* returned.                                                               *)
(***************************************************************************)
ChangeInputs == ((0 - MaxChange) * ChangeDen)..(MaxChange * ChangeDen)

VolumeInputs == (0 - 1)..MaxRatioPoints

MarketCapInputs == {0 - 100, 0, 50, 100}

VolumeCalls == [volume : VolumeInputs, cap : MarketCapInputs]

ProbeCalls ==
    {[fn |-> "get_risk_status", args |-> <<n>>, ret |-> Null] : n \in 0..100}
    \cup {[fn |-> "calculate_btc_momentum", args |-> <<a, b>>, ret |-> Null] :
            a \in ChangeInputs, b \in ChangeInputs}
    \cup {[fn |-> "calculate_volume_health", args |-> <<x, y>>, ret |-> Null] :
            x \in VolumeCalls, y \in VolumeCalls}

InitBuckets ==
    /\ probe \in ProbeCalls
    /\ market_data = Null
    /\ risk_score = Null
    /\ result = Null
    /\ raised = "none"
    /\ propagated = "none"
    /\ HistoryIdle
    /\ FetcherIdle
    /\ WritersIdle
    /\ AppIdle

\* get_risk_status(n) for an integer score n
GetRiskStatus ==
    /\ probe.fn = "get_risk_status"
    /\ probe.ret = Null
    /\ probe' = [probe EXCEPT !.ret =
                    [status |-> get_risk_status(100 * probe.args[1]),
                     matching |-> Cardinality(MatchingBands(100 * probe.args[1]))]]
    /\ UNCHANGED <<calc_vars, hist_vars,
                   fetch_vars, race_vars, app_vars>>

\* calculate_btc_momentum on two 24h changes
CalculateBtcMomentum ==
    /\ probe.fn = "calculate_btc_momentum"
    /\ probe.ret = Null
    /\ probe' = [probe EXCEPT !.ret =
                    <<calculate_btc_momentum(Num(probe.args[1])),
                      calculate_btc_momentum(Num(probe.args[2]))>>]
    /\ UNCHANGED <<calc_vars, hist_vars,
                   fetch_vars, race_vars, app_vars>>

\* calculate_volume_health on two (volume, market cap) pairs
CalculateVolumeHealth ==
    /\ probe.fn = "calculate_volume_health"
    /\ probe.ret = Null
    /\ probe' = [probe EXCEPT !.ret =
                    [i \in 1..2 |->
                        calculate_volume_health(
                            Num(probe.args[i].volume),
                            [tag |-> "dict",
                             total_volume_24h_usd |-> Num(probe.args[i].volume),
                             total_market_cap_usd |-> Num(probe.args[i].cap)])]]
    /\ UNCHANGED <<calc_vars, hist_vars,
                   fetch_vars, race_vars, app_vars>>

NextBuckets == GetRiskStatus \/ CalculateBtcMomentum \/ CalculateVolumeHealth

SpecBuckets == InitBuckets /\ [][NextBuckets]_vars

(***************************************************************************)
(* Claims about the calculator, under SpecCalc.                            *)
(***************************************************************************)
FiveLabels == {"Extreme Risk Off", "Risk Off", "Neutral", "Risk On", "Extreme Risk On"}

Returned == result # Null

\* the snapshot is a dict whose fear & greed value and breadth are numbers
NumericPercents ==
    /\ market_data.tag = "dict"
    /\ market_data.fear_greed.tag = "dict"
    /\ market_data.fear_greed.value.tag = "num"
    /\ market_data.market_breadth.tag = "num"

\* C1: for every snapshot (fields present, null or out of range) the score
\* calculate_risk_score returns lies in [0, 100] (0..1000 tenths).
C1_ScoreInRange == Returned => (0 <= result.score /\ result.score <= 1000)

\* C1 witness: a snapshot whose fear & greed and breadth exceed 100 was scored
\* on the normal path and the score is the upper limit.
C1_Witness ==
    /\ Returned
    /\ raised = "none"
    /\ NumericPercents
    /\ market_data.fear_greed.value.n > 100
    /\ market_data.market_breadth.n > 100
    /\ result.score = 1000

\* C2: for every snapshot scored without an exception, the status returned by
\* calculate_risk_score is one of the five defined labels.  (The claim says so
\* of every snapshot; this is its case where no exception is raised.)
C2_StatusAmongFiveLabels == (Returned /\ raised = "none") => result.status \in FiveLabels

\* C3: on the non-exception path the score is the weighted sum
\* 35*fear_greed + 25*btc_momentum + 20*volume_health + 20*market_breadth
\* (hundredths) of the reported components, clamped to [0, 100], and the
\* reported score is that value rounded to one decimal.
C3_WeightedSum ==
    (Returned /\ raised = "none") =>
        LET c == result.components
            sum == 35 * c.fear_greed + 25 * c.btc_momentum
                   + 20 * c.volume_health + 20 * c.market_breadth
            clamped == IF sum < 0 THEN 0 ELSE IF sum > 10000 THEN 10000 ELSE sum
        IN  /\ risk_score = Num(clamped)
            /\ 10 * result.score - 5 <= clamped
            /\ clamped <= 10 * result.score + 5

\* C3 witness: a score strictly inside the range with a fractional part,
\* computed from four components that differ from their defaults.
C3_Witness ==
    /\ Returned
    /\ raised = "none"
    /\ risk_score.n > 0
    /\ risk_score.n < 10000
    /\ risk_score.n % 100 # 0
    /\ result.components.fear_greed # 50
    /\ result.components.market_breadth # 50
    /\ result.components.btc_momentum = 90
    /\ result.components.volume_health = 95

\* C4: an exception raised while the snapshot is processed is caught inside the
\* call and replaced by the fallback (score 50, status "Error"); no exception
\* propagates to the caller.
C4_ExceptionsCaught ==
    /\ propagated = "none"
    /\ (raised # "none" => (Returned /\ result.score = 500 /\ result.status = "Error"))

\* C4 witness: an AttributeError (a snapshot that is None or holds a non-dict
\* where a dict is expected) was raised and the call returned the fallback.
C4_Witness == raised = "AttributeError" /\ Returned /\ result.status = "Error"

(***************************************************************************)
(* Claims about the bucket functions, under SpecBuckets.                   *)
(***************************************************************************)
Called(fn) == probe.fn = fn /\ probe.ret # Null

\* C5: every integer score 0..100 matches exactly one of the five bands and
\* maps to that band's status.
C5_StatusPartition ==
    Called("get_risk_status") =>
        /\ probe.ret.matching = 1
        /\ probe.ret.status \in FiveLabels

\* C5 witness: the scores on both sides of a band boundary were looked up;
\* this one is the first score of the Risk Off band.
C5_Witness ==
    /\ Called("get_risk_status")
    /\ probe.args[1] = 31
    /\ probe.ret.status = "Risk Off"

\* C6: calculate_btc_momentum is monotonically non-decreasing in the 24h change.
C6_MomentumMonotone ==
    Called("calculate_btc_momentum") =>
        (probe.args[1] <= probe.args[2] => probe.ret[1].n <= probe.ret[2].n)

\* C6 witness: two changes in the lowest and the highest bucket.
C6_Witness ==
    /\ Called("calculate_btc_momentum")
    /\ probe.args[1] < probe.args[2]
    /\ probe.ret[1].n = 10
    /\ probe.ret[2].n = 90

\* the volume/market-cap ratio of a call, as the claim defines it: volume/cap,
\* and 0 when the cap is <= 0; RatioLE compares two of them
ClaimRatioLE(x, y) ==
    LET nx == IF x.cap > 0 THEN x.volume ELSE 0
        dx == IF x.cap > 0 THEN x.cap ELSE 1
        ny == IF y.cap > 0 THEN y.volume ELSE 0
        dy == IF y.cap > 0 THEN y.cap ELSE 1
    IN  nx * dy <= ny * dx

\* C7: calculate_volume_health is monotonically non-decreasing in the
\* volume/market-cap ratio, and a market cap <= 0 gives the lowest bucket (35)
\* without raising.
C7_VolumeMonotone ==
    Called("calculate_volume_health") =>
        /\ \A i \in 1..2 : IsNum(probe.ret[i])
        /\ \A i \in 1..2 : probe.args[i].cap <= 0 => probe.ret[i].n = 35
        /\ ClaimRatioLE(probe.args[1], probe.args[2]) => probe.ret[1].n <= probe.ret[2].n

\* C7 witness: a call with market cap 0 and a positive volume next to a call
\* in the highest bucket.
C7_Witness ==
    /\ Called("calculate_volume_health")
    /\ probe.args[1].cap = 0
    /\ probe.args[1].volume > 0
    /\ probe.ret[1].n = 35
    /\ probe.ret[2].n = 95

(***************************************************************************)
(* data/score_history.py                                                   *)
(*                                                                         *)
(* A datetime is a number of ticks, TicksPerDay of them in a day.  An ISO   *)
(* string is the sequence of the three decimal digits of that number       *)
(* (fixed width, as the fields of YYYY-MM-DDTHH:MM:SS are).  The file is   *)
(* missing, or holds text that is not JSON, or a JSON value that is not an *)
(* object, or the object json.dump wrote.                                  *)
(***************************************************************************)
MAX_HISTORY_DAYS == 90

\* timedelta(days=n)
Days(n) == n * TicksPerDay

\* datetime.isoformat()
isoformat(t) == <<t \div 100, (t \div 10) % 10, t % 10>>

\* datetime.fromisoformat(s)
fromisoformat(s) == 100 * s[1] + 10 * s[2] + s[3]

\* json.dump({'history': history}, f)
JsonDump(history) == [kind |-> "object", history |-> history]

\* load_history(), lines 20-23: json.load raises UnicodeDecodeError when the
\* bytes of the file are not text, and data.get('history', []) raises
\* AttributeError when the JSON value is not an object (a list, a number,
\* null); the except clause of line 23 catches JSONDecodeError and IOError only
LoadRaises(f) ==
    IF f.kind = "not_text" THEN "UnicodeDecodeError"
    ELSE IF f.kind = "not_object" THEN "AttributeError"
    ELSE "none"

\* load_history(), lines 14-24, when it returns: [] when the file is missing
\* or is not JSON (JSONDecodeError is caught), else the object's history
load_history(f) ==
    IF f.kind = "missing" THEN <<>>
    ELSE IF f.kind = "invalid_json" THEN <<>>
    ELSE IF f.kind = "object" THEN f.history
    ELSE <<>>

\* mutant: the filtered list is dropped and the whole history is written back
PruneNothing(history, cutoff_date) == history

\* mutant: the cutoff taken 60 days too late (entries of the last 30 days kept)
PruneAtThirtyDays(history, cutoff_date) ==
    SelectSeq(history, LAMBDA h : fromisoformat(h.timestamp) > cutoff_date + Days(60))

\* lines 49-52: the entries with fromisoformat(timestamp) > cutoff_date
Prune(history, cutoff_date) ==
    SelectSeq(history, LAMBDA h : fromisoformat(h.timestamp) > cutoff_date)

\* mutant: status and message stored under each other's key
NewEntryExchanged(now, rounded, status, message) ==
    [timestamp |-> isoformat(now), score |-> rounded, status |-> message,
     message |-> status]

\* lines 39-44, with the rounded score (tenths)
NewEntry(now, rounded, status, message) ==
    [timestamp |-> isoformat(now), score |-> rounded, status |-> status,
     message |-> message]

\* mutant: the new entry put in front of the list
SavedHistoryPrepended(history, entry, now) ==
    Prune(<<entry>> \o history, now - Days(MAX_HISTORY_DAYS))

\* lines 36-52: the list save_score writes back
SavedHistory(history, entry, now) ==
    Prune(Append(history, entry), now - Days(MAX_HISTORY_DAYS))

\* the absolute difference of two datetimes
AbsDiff(a, b) == IF a >= b THEN a - b ELSE b - a

\* mutant: every entry stays available, whatever was used
AvailableAll(history, used_entries) == history

\* [h for h in history if h['timestamp'] not in used_entries]
Available(history, used_entries) ==
    SelectSeq(history, LAMBDA h : h.timestamp \notin used_entries)

\* mutant: the nearest entry of the whole history, with neither the exclusion
\* of used entries nor the length guard
ClosestOfAll(history, used_entries, target) ==
    LET dist(i) == AbsDiff(fromisoformat(history[i].timestamp), target)
    IN  IF Len(history) > 0
        THEN history[CHOOSE i \in 1..Len(history) :
                       \A j \in 1..Len(history) :
                           dist(i) < dist(j) \/ (dist(i) = dist(j) /\ i <= j)]
        ELSE Null

\* min(available, key=lambda h: abs(fromisoformat(h['timestamp']) - target)):
\* the first entry of the list at the least distance; None when len(history)
\* is 1 or nothing is available
Closest(history, used_entries, target) ==
    LET available == Available(history, used_entries)
        dist(i) == AbsDiff(fromisoformat(available[i].timestamp), target)
    IN  IF Len(history) > 1 /\ Len(available) > 0
        THEN available[CHOOSE i \in 1..Len(available) :
                         \A j \in 1..Len(available) :
                             dist(i) < dist(j) \/ (dist(i) = dist(j) /\ i <= j)]
        ELSE Null

\* mutant: the timestamp of the picked entry is not recorded
UsedWithNothing(used_entries, picked) == used_entries

\* used_entries.add(picked['timestamp']), lines 95 and 108, when an entry was
\* picked
UsedWith(used_entries, picked) ==
    IF picked = Null THEN used_entries ELSE used_entries \cup {picked.timestamp}

\* mutant: the oldest entry of the list
LatestFirst(history) == history[1]

\* latest = history[-1]
Latest(history) == history[Len(history)]

NoSlots == [now |-> Null, yesterday |-> Null, last_week |-> Null, last_month |-> Null]

\* get_historical_values(), lines 67-125, on the loaded history at now_time
HistoricalValues(history, now_time) ==
    IF history = <<>> THEN NoSlots
    ELSE LET latest == Latest(history)
             used1 == {latest.timestamp}
             yesterday == Closest(history, used1, now_time - Days(1))
             used2 == UsedWith(used1, yesterday)
             last_week == Closest(history, used2, now_time - Days(7))
             used3 == UsedWith(used2, last_week)
             last_month == Closest(history, used3, now_time - Days(30))
         IN  [now |-> latest, yesterday |-> yesterday, last_week |-> last_week,
              last_month |-> last_month]

(***************************************************************************)
(* SpecHist: the history store under a single writer.                      *)
(***************************************************************************)
SaveInputs ==
    { [score |-> 3074, status |-> "Unknown",
       message |-> "Unable to determine market status"],
      [score |-> 6120, status |-> "Risk On",
       message |-> "Constructive conditions - Market showing strength"] }

\* the time that passes between two refreshes: one tick (less than a day), or
\* 1, 6, 30 or 60 days
AdvanceSteps == {1} \cup {Days(d) : d \in {1, 6, 30, 60}}

\* the files the first call can find
InitialFiles ==
    {MissingFile, [kind |-> "invalid_json"], [kind |-> "not_text"],
     [kind |-> "not_object"]}

InitHist ==
    /\ clock = 0
    /\ file \in InitialFiles
    /\ saves = 0
    /\ last_save = Null
    /\ ret = Null
    /\ market_data = Null
    /\ risk_score = Null
    /\ result = Null
    /\ raised = "none"
    /\ propagated = "none"
    /\ probe = NoProbe
    /\ FetcherIdle
    /\ WritersIdle
    /\ AppIdle

\* time passes, once after a save; two saves with no Tick between them read
\* the same value from datetime.now() (a clock coarser than the time between
\* the calls), and the clock never goes back
Tick ==
    /\ last_save # Null
    /\ last_save.time = clock
    /\ \E d \in AdvanceSteps : clock' = clock + d
    /\ ret' = Null
    /\ UNCHANGED <<file, saves, last_save, calc_vars, probe,
                   fetch_vars, race_vars, app_vars>>

\* save_score(score, status, message), lines 27-57
SaveScore ==
    /\ saves < MaxSaves
    /\ saves' = saves + 1
    /\ ret' = Null
    /\ \E in \in SaveInputs :
        LET history == load_history(file)
        IN  IF LoadRaises(file) # "none"
            THEN /\ last_save' = [args |-> in, entry |-> Null, time |-> clock,
                                  exc |-> LoadRaises(file)]
                 /\ file' = file
            ELSE \E rounded \in Round1(in.score) :
                    LET entry == NewEntry(clock, rounded, in.status, in.message)
                    IN  /\ file' = JsonDump(SavedHistory(history, entry, clock))
                        /\ last_save' = [args |-> in, entry |-> entry, time |-> clock,
                                         exc |-> "none"]
    /\ UNCHANGED <<clock, calc_vars, probe,
                   fetch_vars, race_vars, app_vars>>

\* load_history()
LoadHistory ==
    /\ LET history == load_history(file)
       IN  ret' = IF LoadRaises(file) # "none"
                  THEN [op |-> "load_history", value |-> Null, exc |-> LoadRaises(file)]
                  ELSE [op |-> "load_history", value |-> history, exc |-> "none"]
    /\ UNCHANGED <<clock, file, saves, last_save, calc_vars, probe,
                   fetch_vars, race_vars, app_vars>>

\* get_historical_values()
GetHistoricalValues ==
    /\ LET history == load_history(file)
       IN  ret' = IF LoadRaises(file) # "none"
                  THEN [op |-> "get_historical_values", value |-> Null,
                        exc |-> LoadRaises(file)]
                  ELSE [op |-> "get_historical_values",
                        value |-> HistoricalValues(history, clock), exc |-> "none"]
    /\ UNCHANGED <<clock, file, saves, last_save, calc_vars, probe,
                   fetch_vars, race_vars, app_vars>>

NextHist == Tick \/ SaveScore \/ LoadHistory \/ GetHistoricalValues

SpecHist == InitHist /\ [][NextHist]_vars

(***************************************************************************)
(* Claims about the history store, under SpecHist.                         *)
(***************************************************************************)
\* the last save_score call returned normally
SaveCompleted == last_save # Null /\ last_save.exc = "none"

\* the last read was op and returned normally; no write was made since
Read(op) == ret # Null /\ ret.op = op /\ ret.exc = "none"

IsIsoString(ts) == Len(ts) = 3 /\ \A i \in 1..3 : ts[i] \in 0..9

\* the list the file holds
HistoryOnDisk == IF file.kind = "object" THEN file.history ELSE <<>>

\* C8 as stated: after save_score(score, status, message) completes, the
\* following load_history includes an entry with the same score, status and
\* message whose timestamp is an ISO string.
C8_RoundTripSameScore ==
    (SaveCompleted /\ Read("load_history")) =>
        \E i \in 1..Len(ret.value) :
            /\ 10 * ret.value[i].score = last_save.args.score
            /\ ret.value[i].status = last_save.args.status
            /\ ret.value[i].message = last_save.args.message
            /\ IsIsoString(ret.value[i].timestamp)

\* C8 amended: after save_score(score, status, message) completes, the
\* following load_history includes an entry whose score is the score rounded to
\* one decimal (within 0.05 of it), with the same status and message, and whose
\* timestamp is an ISO string that parses back to the time of the save.
C8_RoundTripRoundedScore ==
    (SaveCompleted /\ Read("load_history")) =>
        \E i \in 1..Len(ret.value) :
            /\ 10 * ret.value[i].score - 5 <= last_save.args.score
            /\ last_save.args.score <= 10 * ret.value[i].score + 5
            /\ ret.value[i].status = last_save.args.status
            /\ ret.value[i].message = last_save.args.message
            /\ IsIsoString(ret.value[i].timestamp)
            /\ fromisoformat(ret.value[i].timestamp) = last_save.time

\* C8 witness: a score with two decimals was saved into a history that already
\* held entries, and the history was loaded right after.
C8_Witness ==
    /\ SaveCompleted
    /\ Read("load_history")
    /\ clock = last_save.time
    /\ last_save.args.score % 10 # 0
    /\ Len(ret.value) >= 3

\* C9: after a save_score call completes at time T the persisted history holds
\* no entry older than 90 days relative to T, and neither does the list the
\* next load_history returns.
C9_NoEntryOlderThan90Days ==
    SaveCompleted =>
        /\ \A i \in 1..Len(HistoryOnDisk) :
              last_save.time - fromisoformat(HistoryOnDisk[i].timestamp) <= Days(90)
        /\ Read("load_history") =>
              \A i \in 1..Len(ret.value) :
                  last_save.time - fromisoformat(ret.value[i].timestamp) <= Days(90)

\* C9 witness: more saves were made than entries remain (an entry was pruned),
\* and the history was loaded right after the save.
C9_Witness ==
    /\ SaveCompleted
    /\ clock = last_save.time
    /\ Read("load_history")
    /\ Len(ret.value) >= 2
    /\ Len(ret.value) < saves

\* C10: with at most one entry get_historical_values returns null for
\* yesterday, last_week and last_month; with exactly one entry 'now' is that
\* entry; with no entry all four slots are null.
C10_DegenerateHistory ==
    (Read("get_historical_values") /\ Len(HistoryOnDisk) <= 1) =>
        /\ ret.value.yesterday = Null
        /\ ret.value.last_week = Null
        /\ ret.value.last_month = Null
        /\ Len(HistoryOnDisk) = 1 => ret.value.now = HistoryOnDisk[1]
        /\ Len(HistoryOnDisk) = 0 => ret.value.now = Null

\* C10 witness: one entry was saved, a day or more passed, and the slots were
\* read.
C10_Witness ==
    /\ Read("get_historical_values")
    /\ Len(HistoryOnDisk) = 1
    /\ clock > fromisoformat(HistoryOnDisk[1].timestamp)
    /\ ret.value.now = HistoryOnDisk[1]

\* C10 witness, empty case: the slots were read before any save (no file, or a
\* file that is not JSON).
C10_WitnessEmpty ==
    /\ Read("get_historical_values")
    /\ file.kind = "invalid_json"
    /\ ret.value.now = Null

\* the non-null slots of a returned value, by name
SlotNames == {"now", "yesterday", "last_week", "last_month"}

FilledSlots(v) == {k \in SlotNames : v[k] # Null}

\* C11: get_historical_values never returns the same log entry in two slots:
\* the non-null values among now, yesterday, last_week and last_month are
\* pairwise distinct entries, and the entry returned as 'now' is returned in no
\* other slot.
C11_SlotsPairwiseDistinct ==
    Read("get_historical_values") =>
        \A a, b \in FilledSlots(ret.value) :
            a # b => /\ ret.value[a] # ret.value[b]
                     /\ ret.value[a].timestamp # ret.value[b].timestamp

\* C11 witness: all four slots are filled from a history of four entries.
C11_Witness ==
    /\ Read("get_historical_values")
    /\ Len(HistoryOnDisk) = 4
    /\ FilledSlots(ret.value) = SlotNames

\* the positions of the history at the least distance from target among cands
Nearest(history, cands, target) ==
    {p \in cands :
        \A q \in cands :
            AbsDiff(fromisoformat(history[p].timestamp), target)
                <= AbsDiff(fromisoformat(history[q].timestamp), target)}

\* C12 as stated: with two or more entries, yesterday is an entry at the least
\* distance from now - 1 day among all entries except the latest; last_week one
\* at the least distance from now - 7 days among the entries not chosen for now
\* or yesterday; last_month one at the least distance from now - 30 days among
\* the entries not chosen for now, yesterday or last_week.
C12_GreedyNearest ==
    (Read("get_historical_values") /\ Len(HistoryOnDisk) >= 2) =>
        LET h == HistoryOnDisk
            n == Len(h)
            rest == 1..(n - 1)
        IN  \E py \in Nearest(h, rest, clock - Days(1)) :
                /\ ret.value.yesterday = h[py]
                /\ n >= 3 =>
                    \E pw \in Nearest(h, rest \ {py}, clock - Days(7)) :
                        /\ ret.value.last_week = h[pw]
                        /\ n >= 4 =>
                            \E pm \in Nearest(h, rest \ {py, pw}, clock - Days(30)) :
                                ret.value.last_month = h[pm]

\* C13: after any sequence of save_score calls the 'now' slot is the most
\* recent entry of the history: the last one appended, whose timestamp is the
\* greatest.
C13_NowIsMostRecent ==
    (Read("get_historical_values") /\ Len(HistoryOnDisk) >= 1) =>
        /\ ret.value.now = HistoryOnDisk[Len(HistoryOnDisk)]
        /\ \A i \in 1..Len(HistoryOnDisk) :
              fromisoformat(HistoryOnDisk[i].timestamp)
                  <= fromisoformat(ret.value.now.timestamp)
        /\ SaveCompleted => ret.value.now = last_save.entry

\* C13 witness: three saves at three different times, then the slots are read.
C13_Witness ==
    /\ Read("get_historical_values")
    /\ SaveCompleted
    /\ Len(HistoryOnDisk) >= 3
    /\ fromisoformat(HistoryOnDisk[1].timestamp)
           < fromisoformat(HistoryOnDisk[2].timestamp)
    /\ fromisoformat(HistoryOnDisk[2].timestamp)
           < fromisoformat(HistoryOnDisk[3].timestamp)
    /\ ret.value.now = HistoryOnDisk[Len(HistoryOnDisk)]

\* the files load_history cannot read a history from
UnusableKinds == {"missing", "invalid_json", "not_text"}

NegInf == [tag |-> "-inf"]

BTC_MOMENTUM_THRESHOLDS == <<
    [min_change |-> Num(10),  score |-> 90],
    [min_change |-> Num(5),   score |-> 75],
    [min_change |-> Num(3),   score |-> 65],
    [min_change |-> Num(1),   score |-> 55],
    [min_change |-> Num(-1),  score |-> 45],
    [min_change |-> Num(-3),  score |-> 35],
    [min_change |-> Num(-5),  score |-> 25],
    [min_change |-> Num(-10), score |-> 15],
    [min_change |-> NegInf,   score |-> 5] >>

VOLUME_HEALTH_THRESHOLDS == <<
    [min_ratio |-> Num(10), score |-> 95],
    [min_ratio |-> Num(7),  score |-> 80],
    [min_ratio |-> Num(5),  score |-> 65],
    [min_ratio |-> Num(3),  score |-> 50],
    [min_ratio |-> Num(2),  score |-> 35],
    [min_ratio |-> Num(0),  score |-> 20] >>

\* a <= b on floats, one of which may be -inf
FloatLE(a, b) ==
    IF a = NegInf THEN TRUE
    ELSE IF b = NegInf THEN FALSE
    ELSE a.n <= b.n

\* mutant: the loop over the momentum table stops one pair earlier
BtcIndicesFewer(table) == 0..(Len(table) - 4)

\* range(len(BTC_MOMENTUM_THRESHOLDS) - 2), line 84
BtcIndices(table) == 0..(Len(table) - 3)

\* range(len(VOLUME_HEALTH_THRESHOLDS) - 1), line 89
VolumeIndices(table) == 0..(Len(table) - 2)

\* _validate_thresholds(), lines 81-91, on the two tables: the exception it
\* raises, or "none"; Python's index i is position i + 1 of the sequence
validate_thresholds(btc, volume) ==
    IF \E i \in BtcIndices(btc) :
           FloatLE(btc[i + 1].min_change, btc[i + 2].min_change)
    THEN "ValueError"
    ELSE IF \E i \in VolumeIndices(volume) :
                FloatLE(volume[i + 1].min_ratio, volume[i + 2].min_ratio)
    THEN "ValueError"
    ELSE "none"

\* the cutoffs a table edit can put in a row
Cutoffs == {NegInf} \cup {Num(n) : n \in (-MaxCutoff)..MaxCutoff}

\* the momentum table of config.py, and that table with one cutoff replaced
BtcTables ==
    {BTC_MOMENTUM_THRESHOLDS} \cup
    {[BTC_MOMENTUM_THRESHOLDS EXCEPT ![i].min_change = c] :
        i \in 1..Len(BTC_MOMENTUM_THRESHOLDS), c \in Cutoffs}

\* the volume table of config.py, and that table with one cutoff replaced
VolumeTables ==
    {VOLUME_HEALTH_THRESHOLDS} \cup
    {[VOLUME_HEALTH_THRESHOLDS EXCEPT ![i].min_ratio = c] :
        i \in 1..Len(VOLUME_HEALTH_THRESHOLDS), c \in Cutoffs}

\* the module is about to be imported with the two tables
ImportCalls ==
    {[fn |-> "_validate_thresholds", args |-> <<b, v>>, ret |-> Null] :
        b \in BtcTables, v \in {VOLUME_HEALTH_THRESHOLDS}}
    \cup
    {[fn |-> "_validate_thresholds", args |-> <<b, v>>, ret |-> Null] :
        b \in {BTC_MOMENTUM_THRESHOLDS}, v \in VolumeTables}

(***************************************************************************)
(* SpecConfig: the import of utils/config.py, on every candidate table.    *)
(***************************************************************************)
InitConfig ==
    /\ probe \in ImportCalls
    /\ market_data = Null
    /\ risk_score = Null
    /\ result = Null
    /\ raised = "none"
    /\ propagated = "none"
    /\ HistoryIdle
    /\ FetcherIdle
    /\ WritersIdle
    /\ AppIdle

\* _validate_thresholds(), line 93
ValidateThresholds ==
    /\ probe.fn = "_validate_thresholds"
    /\ probe.ret = Null
    /\ probe' = [probe EXCEPT !.ret =
                    [exc |-> validate_thresholds(probe.args[1], probe.args[2])]]
    /\ UNCHANGED <<calc_vars, hist_vars,
                   fetch_vars, race_vars, app_vars>>

NextConfig == ValidateThresholds

SpecConfig == InitConfig /\ [][NextConfig]_vars

(***************************************************************************)
(* Claims about the configuration, under SpecConfig.                       *)
(***************************************************************************)
\* the import ran _validate_thresholds
Validated == probe.fn = "_validate_thresholds" /\ probe.ret # Null

\* the pairs of adjacent rows of a table, by the position of the first row
AdjacentPairs(table) == 1..(Len(table) - 1)

\* the cutoff of row i is strictly greater than the cutoff of row i + 1
BtcDecreasingAt(table, i) == ~FloatLE(table[i].min_change, table[i + 1].min_change)

VolumeDecreasingAt(table, i) == ~FloatLE(table[i].min_ratio, table[i + 1].min_ratio)

PyBool(b) == [tag |-> "bool", b |-> b]

DateTime(t) == [tag |-> "datetime", t |-> t]

IsoString(t) == [tag |-> "isostr", s |-> isoformat(t)]

\* bool(v) as all([...]) and 'if v' take it: None, 0.0 and {} are falsy
Truthy(v) ==
    IF v.tag \in {"None", "emptydict", "absent"} THEN FALSE
    ELSE IF v.tag = "num" THEN v.n # 0
    ELSE IF v.tag = "bool" THEN v.b
    ELSE TRUE

\* what session.get, raise_for_status and response.json raise, lines 48-52
RequestRaises(resp) ==
    IF resp.kind = "timeout" THEN "Timeout"
    ELSE IF resp.kind = "http_error" THEN "HTTPError"
    ELSE IF resp.kind = "invalid_json" THEN "ValueError"
    ELSE "none"

\* the except clauses of _make_request, lines 53-64
RequestExceptClauses == {"HTTPError", "Timeout", "RequestException", "ValueError"}

\* _make_request(url, params): the JSON value, or None on a caught error
make_request(resp) ==
    IF RequestRaises(resp) = "none" THEN resp
    ELSE IF RequestRaises(resp) \in RequestExceptClauses THEN Null
    ELSE Raise(RequestRaises(resp))

\* get_fear_greed_index(), lines 66-87, on the response served at call n:
\* item["value"] raises KeyError when the item has no such field
get_fear_greed_index(resp, n) ==
    LET data == make_request(resp)
    IN  IF data = Null THEN Null
        ELSE IF IsRaise(data) THEN data
        ELSE IF data.kind = "no_payload" THEN Null
        ELSE IF data.kind = "bad_fields" THEN Raise("KeyError")
        ELSE [tag |-> "dict", value |-> Num(20 * n + 10), timestamp |-> n]

\* get_global_market_data(), lines 89-110: data["data"].get raises
\* AttributeError when data["data"] is not an object
get_global_market_data(resp, n) ==
    LET data == make_request(resp)
    IN  IF data = Null THEN Null
        ELSE IF IsRaise(data) THEN data
        ELSE IF data.kind = "no_payload" THEN Null
        ELSE IF data.kind = "bad_fields" THEN Raise("AttributeError")
        ELSE [tag |-> "dict", total_market_cap_usd |-> Num(100),
              total_volume_24h_usd |-> Num(5), served |-> n]

\* get_bitcoin_data(), lines 112-137: data["bitcoin"].get raises
\* AttributeError when data["bitcoin"] is not an object
get_bitcoin_data(resp, n) ==
    LET data == make_request(resp)
    IN  IF data = Null THEN Null
        ELSE IF IsRaise(data) THEN data
        ELSE IF data.kind = "no_payload" THEN Null
        ELSE IF data.kind = "bad_fields" THEN Raise("AttributeError")
        ELSE [tag |-> "dict", price_change_24h |-> Num(n * ChangeDen), served |-> n]

\* get_top_movers(), lines 139-184: coin.get("market_cap", 0) >= ... raises
\* TypeError when a coin's market_cap is null
get_top_movers(resp, n) ==
    LET data == make_request(resp)
    IN  IF data = Null THEN Null
        ELSE IF IsRaise(data) THEN data
        ELSE IF data.kind = "no_payload" THEN Null
        ELSE IF data.kind = "bad_fields" THEN Raise("TypeError")
        ELSE [tag |-> "dict", served |-> n]

\* get_market_breadth(), lines 186-217: the percentage of the listed coins
\* whose 24h change is positive; coin.get raises AttributeError when a list
\* item is not an object
get_market_breadth(resp, n) ==
    LET data == make_request(resp)
    IN  IF data = Null THEN Null
        ELSE IF IsRaise(data) THEN data
        ELSE IF data.kind = "no_payload" THEN Null
        ELSE IF data.kind = "bad_fields" THEN Raise("AttributeError")
        ELSE Num((data.positive * 100) \div data.total)

\* the results dict of lines 268-276
ResultsDict(fg, gm, btc, tm, mb, ts, uc) ==
    [tag |-> "dict", fear_greed |-> fg, global_market |-> gm, bitcoin |-> btc,
     top_movers |-> tm, market_breadth |-> mb, timestamp |-> ts, using_cache |-> uc]

\* _save_metrics_cache(data), lines 219-239: the file after the call; the
\* write is skipped when a critical value is falsy, and a failed write
\* (write_ok false) is logged and leaves the file as it was
save_metrics_cache(f, data, write_ok) ==
    IF Truthy(data.fear_greed) /\ Truthy(data.global_market) /\ Truthy(data.bitcoin)
       /\ write_ok
    THEN [kind |-> "object",
          data |-> [data EXCEPT !.timestamp = IsoString(data.timestamp.t),
                                !.using_cache = NoKey]]
    ELSE f

\* _load_metrics_cache(), lines 241-257: the dict of the file with its
\* timestamp parsed, or None when there is no file or reading it raises
load_metrics_cache(f) ==
    IF f.kind = "object"
    THEN [f.data EXCEPT !.timestamp = DateTime(fromisoformat(f.data.timestamp.s))]
    ELSE Null

\* line 279: all([...]) of the four critical values
ApiSuccess(results) ==
    /\ Truthy(results.fear_greed)
    /\ Truthy(results.global_market)
    /\ Truthy(results.bitcoin)
    /\ Truthy(results.market_breadth)

\* line 296: self.cache and self.cache.get("fear_greed")
HasMemoryCache(c) == Truthy(c) /\ Truthy(GetField(c, "fear_greed", Null))

\* mutant: the else branch of lines 292-315 with the file tried before the
\* in-memory cache
FallbackFileFirst(c, f, results, now) ==
    LET persistent_cache == load_metrics_cache(f)
    IN  IF Truthy(persistent_cache)
        THEN LET loaded == [persistent_cache EXCEPT !.timestamp = DateTime(now),
                                                    !.using_cache = PyBool(TRUE)]
             IN  [results |-> loaded, cache |-> loaded]
        ELSE IF HasMemoryCache(c)
        THEN [results |-> [c EXCEPT !.timestamp = DateTime(now),
                                    !.using_cache = PyBool(TRUE)],
              cache |-> c]
        ELSE [results |-> [results EXCEPT !.timestamp = DateTime(now),
                                          !.using_cache = PyBool(TRUE)],
              cache |-> c]

\* the else branch of lines 292-315: what is returned and the cache after it
Fallback(c, f, results, now) ==
    IF HasMemoryCache(c)
    THEN [results |-> [c EXCEPT !.timestamp = DateTime(now),
                                !.using_cache = PyBool(TRUE)],
          cache |-> c]
    ELSE LET persistent_cache == load_metrics_cache(f)
         IN  IF Truthy(persistent_cache)
             THEN LET loaded == [persistent_cache EXCEPT
                                    !.timestamp = DateTime(now),
                                    !.using_cache = PyBool(TRUE)]
                  IN  [results |-> loaded, cache |-> loaded]
             ELSE [results |-> [results EXCEPT !.timestamp = DateTime(now),
                                               !.using_cache = PyBool(TRUE)],
                   cache |-> c]

\* lines 278-317 of fetch_all_data on the five values fetched at time now:
\* the dict returned, the cache and the cache file after the call
fetch_all_data(c, f, sub, now, write_ok) ==
    LET results == ResultsDict(sub.fear_greed, sub.global_market, sub.bitcoin,
                               sub.top_movers, sub.market_breadth,
                               DateTime(now), PyBool(FALSE))
    IN  IF ApiSuccess(results)
        THEN [results |-> results, cache |-> results,
              file |-> save_metrics_cache(f, results, write_ok)]
        ELSE [results |-> Fallback(c, f, results, now).results,
              cache |-> Fallback(c, f, results, now).cache,
              file |-> f]

(***************************************************************************)
(* SpecFetch: one MarketDataFetcher called again and again, every endpoint *)
(* answering in every way.                                                 *)
(***************************************************************************)
SubFetches == <<"fear_greed", "global_market", "bitcoin", "top_movers", "market_breadth">>

Critical == {"fear_greed", "global_market", "bitcoin", "market_breadth"}

NotAttempted == [tag |-> "not_attempted"]

ResponseKinds == {"timeout", "http_error", "invalid_json", "no_payload", "bad_fields"}

\* what an endpoint can answer to a sub-fetch
Responses ==
    {[tag |-> "response", kind |-> "ok"]} \cup {[tag |-> "response", kind |-> k] : k \in ResponseKinds}

\* the markets endpoint lists four coins, none or three of them up on the day
MarketsResponses ==
    {[tag |-> "response", kind |-> "ok", positive |-> p, total |-> 4] : p \in {0, 3}}
    \cup {[tag |-> "response", kind |-> k] : k \in ResponseKinds}

\* the snapshot an earlier run of the application left in the cache file
EarlierSnapshot ==
    ResultsDict(get_fear_greed_index([tag |-> "response", kind |-> "ok"], 0),
                get_global_market_data([tag |-> "response", kind |-> "ok"], 0),
                get_bitcoin_data([tag |-> "response", kind |-> "ok"], 0),
                get_top_movers([tag |-> "response", kind |-> "ok"], 0),
                Num(50), IsoString(0), NoKey)

InitialMetricsFiles ==
    {[kind |-> "missing"], [kind |-> "corrupt"],
     [kind |-> "object", data |-> EarlierSnapshot]}

InitFetch ==
    /\ cache = EmptyDict
    /\ metrics_file \in InitialMetricsFiles
    /\ fetches = 0
    /\ call = Null
    /\ market_data = Null
    /\ risk_score = Null
    /\ result = Null
    /\ raised = "none"
    /\ propagated = "none"
    /\ probe = NoProbe
    /\ HistoryIdle
    /\ WritersIdle
    /\ AppIdle

\* the results dict built from the values the sub-fetches of the call returned
FreshResults ==
    ResultsDict(call.sub.fear_greed, call.sub.global_market, call.sub.bitcoin,
                call.sub.top_movers, call.sub.market_breadth,
                DateTime(call.n), PyBool(FALSE))

\* the five values of a results dict or of a snapshot
Values(d) ==
    [fear_greed |-> d.fear_greed, global_market |-> d.global_market,
     bitcoin |-> d.bitcoin, market_breadth |-> d.market_breadth,
     top_movers |-> d.top_movers]

\* a call in which the sub-fetches returned sub succeeded fully: none of the
\* four critical values is null
FullySuccessful(sub) == \A k \in Critical : sub[k] # Null

\* the values of the most recent fully successful call before the fetcher's
\* first call: those of the intact cache file an earlier run left, if any
EarlierSuccess(f) == IF f.kind = "object" THEN Values(f.data) ELSE Null

\* the position of fetch_all_data after a sub-fetch returned
PcAfter(name) ==
    IF name = "fear_greed" THEN "global_market"
    ELSE IF name = "global_market" THEN "bitcoin"
    ELSE IF name = "bitcoin" THEN "top_movers"
    ELSE IF name = "top_movers" THEN "market_breadth"
    ELSE "api_success"

\* the call record after sub-fetch name returned value v, or raised
AfterSubFetch(rec, name, resp, v) ==
    [rec EXCEPT !.responses[name] = resp,
                !.sub[name] = v,
                !.exc = IF IsRaise(v) THEN v.exc ELSE "none",
                !.pc = IF IsRaise(v) THEN "raised" ELSE PcAfter(name)]

\* fetch_all_data() is entered (no call is running) and evaluates
\* self.get_fear_greed_index(), line 269
GetFearGreedIndex ==
    /\ IF call = Null THEN TRUE ELSE call.pc \in {"returned", "raised"}
    /\ fetches < MaxFetches
    /\ fetches' = fetches + 1
    /\ \E resp \in Responses :
        call' = AfterSubFetch(
                    [n |-> fetches + 1, pc |-> "fear_greed", exc |-> "none", results |-> Null,
                     last_full |-> IF call = Null THEN EarlierSuccess(metrics_file)
                                   ELSE call.last_full,
                     before |-> [cache |-> cache, file |-> metrics_file],
                     responses |-> [k \in {SubFetches[i] : i \in 1..5} |-> NotAttempted],
                     sub |-> [k \in {SubFetches[i] : i \in 1..5} |-> NotAttempted]],
                    "fear_greed", resp, get_fear_greed_index(resp, fetches + 1))
    /\ UNCHANGED <<cache, metrics_file, calc_vars, probe, hist_vars, race_vars, app_vars>>

\* self.get_global_market_data(), line 270
GetGlobalMarketData ==
    /\ call # Null
    /\ call.pc = "global_market"
    /\ \E resp \in Responses :
        call' = AfterSubFetch(call, "global_market", resp,
                              get_global_market_data(resp, call.n))
    /\ UNCHANGED <<cache, metrics_file, fetches, calc_vars, probe, hist_vars,
                   race_vars, app_vars>>

\* self.get_bitcoin_data(), line 271
GetBitcoinData ==
    /\ call # Null
    /\ call.pc = "bitcoin"
    /\ \E resp \in Responses :
        call' = AfterSubFetch(call, "bitcoin", resp, get_bitcoin_data(resp, call.n))
    /\ UNCHANGED <<cache, metrics_file, fetches, calc_vars, probe, hist_vars,
                   race_vars, app_vars>>

\* self.get_top_movers(), line 272
GetTopMovers ==
    /\ call # Null
    /\ call.pc = "top_movers"
    /\ \E resp \in Responses :
        call' = AfterSubFetch(call, "top_movers", resp, get_top_movers(resp, call.n))
    /\ UNCHANGED <<cache, metrics_file, fetches, calc_vars, probe, hist_vars,
                   race_vars, app_vars>>

\* self.get_market_breadth(), line 273
GetMarketBreadth ==
    /\ call # Null
    /\ call.pc = "market_breadth"
    /\ \E resp \in MarketsResponses :
        call' = AfterSubFetch(call, "market_breadth", resp,
                              get_market_breadth(resp, call.n))
    /\ UNCHANGED <<cache, metrics_file, fetches, calc_vars, probe, hist_vars,
                   race_vars, app_vars>>

\* lines 274-317: the success test, the caches, the return
FetchAllDataReturn ==
    /\ call # Null
    /\ call.pc = "api_success"
    /\ \E write_ok \in BOOLEAN :
        LET out == fetch_all_data(cache, metrics_file, call.sub, call.n, write_ok)
        IN  /\ call' = [call EXCEPT !.pc = "returned", !.results = out.results,
                                    !.last_full = IF FullySuccessful(call.sub)
                                                  THEN Values(FreshResults)
                                                  ELSE call.last_full]
            /\ cache' = out.cache
            /\ metrics_file' = out.file
    /\ UNCHANGED <<fetches, calc_vars, probe, hist_vars, race_vars, app_vars>>

NextFetch ==
    \/ GetFearGreedIndex
    \/ GetGlobalMarketData
    \/ GetBitcoinData
    \/ GetTopMovers
    \/ GetMarketBreadth
    \/ FetchAllDataReturn

SpecFetch == InitFetch /\ [][NextFetch]_vars

(***************************************************************************)
(* Claims about the fetcher, under SpecFetch.                              *)
(***************************************************************************)
\* the last fetch_all_data call has returned a dict
FetchReturned == call # Null /\ call.pc = "returned"

\* the last fetch_all_data call is over: it returned or an exception left it
CallOver == call # Null /\ call.pc \in {"returned", "raised"}

\* a dict handed out as cached data at the time of the call
Restamped(d) ==
    [d EXCEPT !.timestamp = DateTime(call.n), !.using_cache = PyBool(TRUE)]

\* a critical sub-fetch of the call returned null
SomeCriticalNull == \E k \in Critical : call.sub[k] = Null

\* C14: when a critical sub-fetch is null, fetch_all_data returns the
\* in-memory snapshot if there is one; otherwise the snapshot of the cache
\* file if it can be loaded, which also becomes the in-memory cache; otherwise
\* the partial fresh data.  On each of the three paths using_cache is True.
C14_FallbackOrder ==
    (FetchReturned /\ SomeCriticalNull) =>
        /\ call.results.using_cache = PyBool(TRUE)
        /\ IF call.before.cache # EmptyDict
           THEN /\ call.results = Restamped(call.before.cache)
                /\ cache = call.before.cache
           ELSE IF call.before.file.kind = "object"
           THEN /\ call.results.fear_greed = call.before.file.data.fear_greed
                /\ call.results.global_market = call.before.file.data.global_market
                /\ call.results.bitcoin = call.before.file.data.bitcoin
                /\ call.results.top_movers = call.before.file.data.top_movers
                /\ call.results.market_breadth = call.before.file.data.market_breadth
                /\ cache = call.results
           ELSE /\ call.results = Restamped(FreshResults)
                /\ cache = call.before.cache

\* C14 witness: a critical sub-fetch returned null while the fetcher held a
\* snapshot in memory and the cache file held another one.
C14_Witness ==
    /\ FetchReturned
    /\ SomeCriticalNull
    /\ call.before.cache # EmptyDict
    /\ call.before.file.kind = "object"
    /\ call.before.file.data.fear_greed # call.before.cache.fear_greed
    /\ call.results.fear_greed = call.before.cache.fear_greed

\* C14 witness, file path: nothing in memory, the file's snapshot is returned.
C14_WitnessFile ==
    /\ FetchReturned
    /\ SomeCriticalNull
    /\ call.before.cache = EmptyDict
    /\ call.before.file.kind = "object"
    /\ cache = call.results

\* C14 witness, partial path: nothing in memory, no file that loads.
C14_WitnessPartial ==
    /\ FetchReturned
    /\ SomeCriticalNull
    /\ call.before.cache = EmptyDict
    /\ call.before.file.kind = "corrupt"
    /\ call.results.bitcoin # Null
    /\ call.results.using_cache = PyBool(TRUE)

\* C15 as stated: fetch_all_data returns the fresh values with using_cache
\* False if and only if none of the four critical sub-fetches returned null;
\* cached data is substituted only when at least one of them is null.
C15_FreshIffNoCriticalNull ==
    FetchReturned => (call.results = FreshResults <=> ~SomeCriticalNull)

\* the response is a failure of the API call: a timeout, an HTTP error or a
\* malformed body
IsFailure(resp) == resp.kind \in ResponseKinds

\* C16 as stated: a failure of any single API call is caught for that call
\* alone and yields null for that sub-fetch; the remaining sub-fetches are
\* still attempted and fetch_all_data returns a result instead of raising.
C16_FailuresYieldNull ==
    CallOver =>
        /\ call.exc = "none"
        /\ call.results # Null
        /\ \A i \in 1..Len(SubFetches) :
              /\ call.responses[SubFetches[i]] # NotAttempted
              /\ IsFailure(call.responses[SubFetches[i]]) =>
                    call.sub[SubFetches[i]] = Null

(***************************************************************************)
(* SpecRace: two save_score calls running at once on the same file, with   *)
(* no lock.  A call reads the file (line 36), later opens it for writing,  *)
(* which empties it (line 56), and its text reaches the file when the      *)
(* with block closes it (line 57): one write at offset 0.                  *)
(***************************************************************************)
Writers == {1, 2}

\* len(s) of the strings save_score is called with
StrLen(s) ==
    IF s = "Unknown" THEN 7
    ELSE IF s = "Risk On" THEN 7
    ELSE IF s = "Unable to determine market status" THEN 33
    ELSE 49

\* len(repr(x)) of a score kept in tenths: 5.0, 30.7, 100.0
ScoreLen(tenths) == IF tenths < 100 THEN 3 ELSE IF tenths < 1000 THEN 4 ELSE 5

\* the number of characters json.dump(..., indent=2) writes for one entry
EntrySize(e) == 117 + ScoreLen(e.score) + StrLen(e.status) + StrLen(e.message)

RECURSIVE EntriesSize(_)
EntriesSize(history) ==
    IF history = <<>> THEN 0
    ELSE EntrySize(Head(history)) + EntriesSize(Tail(history))

\* the number of characters of json.dump({'history': history}, f, indent=2)
DocSize(history) ==
    IF history = <<>> THEN 19
    ELSE 23 + EntriesSize(history) + 2 * (Len(history) - 1)

\* the number of bytes in the file
FileSize(f) ==
    IF f.kind = "object" THEN DocSize(f.history)
    ELSE IF f.kind = "mixture" THEN f.size
    ELSE 0

\* open(HISTORY_FILE, 'w'): the file exists and is empty, which is not JSON
Truncated == [kind |-> "invalid_json"]

\* the file after a call writes its text at offset 0 and closes: bytes of a
\* longer text written since the open stay behind the new text
Written(f, history) ==
    IF FileSize(f) <= DocSize(history) THEN JsonDump(history)
    ELSE [kind |-> "mixture", size |-> FileSize(f)]

\* the file the two calls find: none, or one entry saved at time 0
RaceInitialFiles ==
    {MissingFile,
     JsonDump(<<NewEntry(0, 612, "Risk On",
                         "Constructive conditions - Market showing strength")>>)}

InitRace ==
    /\ clock = 1
    /\ file \in RaceInitialFiles
    /\ saves = 0
    /\ last_save = Null
    /\ ret = Null
    /\ writers \in [Writers -> {[pc |-> "load", args |-> in, history |-> <<>>,
                                 doc |-> <<>>] : in \in SaveInputs}]
    /\ events = <<>>
    /\ market_data = Null
    /\ risk_score = Null
    /\ result = Null
    /\ raised = "none"
    /\ propagated = "none"
    /\ probe = NoProbe
    /\ FetcherIdle
    /\ AppIdle

\* line 36: history = load_history()
WriterLoad ==
    \E w \in Writers :
        /\ writers[w].pc = "load"
        /\ writers' = [writers EXCEPT
                          ![w].pc = IF LoadRaises(file) # "none" THEN "raised" ELSE "open",
                          ![w].history = load_history(file)]
        /\ events' = Append(events, [step |-> "load", w |-> w])
        /\ UNCHANGED <<clock, file, saves, last_save, ret, calc_vars, probe,
                       fetch_vars, app_vars>>

\* lines 39-56: the entry is stamped with datetime.now() and appended, the
\* list is pruned, and the file is opened for writing
WriterOpen ==
    \E w \in Writers, d \in {0, 1} :
        /\ writers[w].pc = "open"
        /\ clock' = clock + d
        /\ \E rounded \in Round1(writers[w].args.score) :
              LET entry == NewEntry(clock + d, rounded, writers[w].args.status,
                                    writers[w].args.message)
              IN  writers' = [writers EXCEPT
                                 ![w].pc = "dump",
                                 ![w].doc = SavedHistory(writers[w].history, entry,
                                                         clock + d)]
        /\ file' = Truncated
        /\ events' = Append(events, [step |-> "open", w |-> w])
        /\ UNCHANGED <<saves, last_save, ret, calc_vars, probe, fetch_vars, app_vars>>

\* line 57 and the end of the with block: the text is written and the file
\* closed
WriterDump ==
    \E w \in Writers :
        /\ writers[w].pc = "dump"
        /\ file' = Written(file, writers[w].doc)
        /\ writers' = [writers EXCEPT ![w].pc = "done"]
        /\ events' = Append(events, [step |-> "dump", w |-> w])
        /\ UNCHANGED <<clock, saves, last_save, ret, calc_vars, probe,
                       fetch_vars, app_vars>>

NextRace == WriterLoad \/ WriterOpen \/ WriterDump

SpecRace == InitRace /\ [][NextRace]_vars

(***************************************************************************)
(* Claims about concurrent saves, under SpecRace.                          *)
(***************************************************************************)
\* a call has opened the file and not yet written its text
WriteInProgress == \E w \in Writers : writers[w].pc = "dump"

\* the calls that have written their text
Dumped == {w \in Writers : writers[w].pc = "done"}

\* both calls read the file before either opened it for writing
BothLoadedFirst ==
    \A i, j \in 1..Len(events) :
        (events[i].step = "load" /\ events[j].step = "open") => i < j

\* C19 as stated, read at the points where no write is in progress: when the
\* two calls interleave, both loading before either writes, the file ends up
\* holding the list of the call that wrote last (so the entry of the other
\* call is lost); and whenever a call has written, the file holds the complete
\* list of one of the calls, never a mixture of the two.
C19_LastWriterWins ==
    /\ (Dumped # {} /\ ~WriteInProgress) =>
            \E w \in Dumped : file = JsonDump(writers[w].doc)
    /\ (Dumped = Writers /\ BothLoadedFirst) =>
            /\ file = JsonDump(writers[events[Len(events)].w].doc)
            /\ Len(HistoryOnDisk) = Len(writers[events[Len(events)].w].history) + 1

(***************************************************************************)
(* SpecApp: the refresh cycles of app.py.  main() calls                    *)
(* fetch_and_calculate_data(), which fetches and scores unless its cached  *)
(* return value is still fresh, and then renders the dashboard; the        *)
(* thermometer reads the history with get_historical_values().  An         *)
(* exception ends the cycle in the except branch of main().                *)
(***************************************************************************)
InitApp ==
    /\ app_pc = "idle"
    /\ cycles = 0
    /\ cache = EmptyDict
    /\ metrics_file \in InitialMetricsFiles
    /\ fetches = 0
    /\ call = Null
    /\ clock = 1
    /\ file \in RaceInitialFiles
    /\ saves = 0
    /\ last_save = Null
    /\ ret = Null
    /\ market_data = Null
    /\ risk_score = Null
    /\ result = Null
    /\ raised = "none"
    /\ propagated = "none"
    /\ probe = NoProbe
    /\ WritersIdle

\* main() is run (first load, st.rerun() of line 284, or a page refresh) and
\* fetch_and_calculate_data() finds no fresh cached value
AppBegin ==
    /\ app_pc \in {"idle", "rendered", "error"}
    /\ cycles < MaxCycles
    /\ cycles' = cycles + 1
    /\ app_pc' = "fetch"
    /\ ret' = Null
    /\ clock' = clock + 1
    /\ UNCHANGED <<file, saves, last_save, calc_vars, probe, fetch_vars, race_vars>>

\* main() is run while the value cached by st.cache_data is fresh: nothing is
\* fetched or scored
AppBeginCached ==
    /\ app_pc = "rendered"
    /\ cycles < MaxCycles
    /\ cycles' = cycles + 1
    /\ app_pc' = "calculated"
    /\ ret' = Null
    /\ UNCHANGED <<clock, file, saves, last_save, calc_vars, probe, fetch_vars,
                   race_vars>>

\* the value a sub-fetch of call n returns on a response
SubFetchValue(name, resp, n) ==
    IF name = "fear_greed" THEN get_fear_greed_index(resp, n)
    ELSE IF name = "global_market" THEN get_global_market_data(resp, n)
    ELSE IF name = "bitcoin" THEN get_bitcoin_data(resp, n)
    ELSE IF name = "top_movers" THEN get_top_movers(resp, n)
    ELSE get_market_breadth(resp, n)

\* lines 268-274: the sub-fetches from the i-th on, in order, up to the first
\* that raises
RECURSIVE RunSubFetches(_, _, _)
RunSubFetches(rec, rs, i) ==
    IF i > Len(SubFetches) \/ rec.pc = "raised" THEN rec
    ELSE RunSubFetches(
             AfterSubFetch(rec, SubFetches[i], rs[SubFetches[i]],
                           SubFetchValue(SubFetches[i], rs[SubFetches[i]], rec.n)),
             rs, i + 1)

\* what the endpoints answer during a refresh cycle: each critical sub-fetch
\* succeeds or times out, or the first one gets a body without the expected
\* fields
AppResponses ==
    {[fear_greed |-> fg, global_market |-> gm, bitcoin |-> btc, top_movers |-> tm,
      market_breadth |-> mb] :
        fg \in {[tag |-> "response", kind |-> k] : k \in {"ok", "timeout", "bad_fields"}},
        gm \in {[tag |-> "response", kind |-> k] : k \in {"ok", "timeout"}},
        btc \in {[tag |-> "response", kind |-> k] : k \in {"ok", "timeout"}},
        tm \in {[tag |-> "response", kind |-> "ok"]},
        mb \in {r \in MarketsResponses : r.kind \in {"ok", "timeout"}}}

\* fetcher.fetch_all_data(), line 56, for this cycle
AppFetch ==
    /\ app_pc = "fetch"
    /\ fetches < cycles
    /\ fetches' = fetches + 1
    /\ \E rs \in AppResponses, write_ok \in BOOLEAN :
        LET rec == RunSubFetches(
                       [n |-> fetches + 1, pc |-> "fear_greed", exc |-> "none",
                        results |-> Null,
                        before |-> [cache |-> cache, file |-> metrics_file],
                        responses |-> [k \in {SubFetches[i] : i \in 1..5} |-> NotAttempted],
                        sub |-> [k \in {SubFetches[i] : i \in 1..5} |-> NotAttempted]],
                       rs, 1)
            out == fetch_all_data(cache, metrics_file, rec.sub, rec.n, write_ok)
        IN  IF rec.pc = "raised"
            THEN /\ call' = rec
                 /\ UNCHANGED <<cache, metrics_file>>
            ELSE /\ call' = [rec EXCEPT !.pc = "returned", !.results = out.results]
                 /\ cache' = out.cache
                 /\ metrics_file' = out.file
    /\ UNCHANGED <<app_vars, calc_vars, probe, hist_vars, race_vars>>

\* calculator.calculate_risk_score(market_data), line 59
AppCalculate ==
    /\ app_pc = "fetch"
    /\ fetches = cycles
    /\ call.pc = "returned"
    /\ app_pc' = "calculated"
    /\ market_data' = call.results
    /\ LET body == TryBlock(call.results)
       IN  IF ~IsRaise(body)
           THEN /\ raised' = "none"
                /\ risk_score' = Num(body.risk_score)
                /\ \E score \in Round1(body.risk_score) :
                       result' = [score |-> score, status |-> body.status,
                                  components |-> body.components]
           ELSE /\ raised' = body.exc
                /\ risk_score' = Null
                /\ result' = FallbackResult
    /\ propagated' = "none"
    /\ UNCHANGED <<cycles, probe, hist_vars, fetch_vars, race_vars>>

\* lines 127-270: session state, header, cards and the thermometer, whose
\* render_thermometer calls get_historical_values()
AppRender ==
    /\ app_pc = "calculated"
    /\ LoadRaises(file) = "none"
    /\ ret' = [op |-> "get_historical_values",
               value |-> HistoricalValues(load_history(file), clock), exc |-> "none"]
    /\ app_pc' = "rendered"
    /\ UNCHANGED <<cycles, clock, file, saves, last_save, calc_vars, probe,
                   fetch_vars, race_vars>>

\* lines 286-288: an exception of the fetch reaches the except branch of main()
AppError ==
    /\ app_pc = "fetch"
    /\ fetches = cycles
    /\ call.pc = "raised"
    /\ app_pc' = "error"
    /\ UNCHANGED <<cycles, calc_vars, probe, hist_vars, fetch_vars, race_vars>>

NextApp ==
    \/ AppBegin
    \/ AppBeginCached
    \/ AppFetch
    \/ AppCalculate
    \/ AppRender
    \/ AppError

SpecApp == InitApp /\ [][NextApp]_vars

(***************************************************************************)
(* Claims about the refresh cycle, under SpecApp.                          *)
(***************************************************************************)
\* the dashboard of a cycle that fetched and scored has been rendered
RenderedFreshScore ==
    /\ app_pc = "rendered"
    /\ fetches = cycles
    /\ call.pc = "returned"

\* C18 as stated: a refresh cycle runs fetch, calculate, persist, render in
\* that order: when the dashboard of a cycle that computed a risk score is
\* rendered, save_score has been called in that cycle and the last entry of
\* the history is the entry for that score.
C18_PersistBeforeRender ==
    RenderedFreshScore =>
        /\ saves >= 1
        /\ last_save # Null
        /\ Len(HistoryOnDisk) >= 1
        /\ HistoryOnDisk[Len(HistoryOnDisk)].score = result.score
        /\ HistoryOnDisk[Len(HistoryOnDisk)].status = result.status
        /\ fromisoformat(HistoryOnDisk[Len(HistoryOnDisk)].timestamp) = clock


(***************************************************************************)
(* Claims about the status lookup inside calculate_risk_score              *)
(***************************************************************************)

\* C21: "Unknown" is unreachable from calculate_risk_score: for every snapshot
\* scored without an exception, the clamped weighted sum (a fractional value,
\* looked up before the rounding) lies inside at least one of the five bands
\* and the status returned is not "Unknown".
C21_UnknownUnreachable ==
    (Returned /\ raised = "none") =>
        /\ MatchingBands(risk_score.n) # {}
        /\ result.status # "Unknown"


(***************************************************************************)
(* Claims about the bucket functions and the threshold tables of config.py *)
(***************************************************************************)

\* x >= m for a change or ratio x, a fraction <<numerator, denominator>> with
\* a positive denominator, and a table cutoff m, a number or float('-inf')
AtLeast(x, m) == IF m = NegInf THEN TRUE ELSE x[1] >= m.n * x[2]

\* x > m, likewise
Above(x, m) == IF m = NegInf THEN TRUE ELSE x[1] > m.n * x[2]

\* the rows of a threshold table that x matches, the row's cutoff being
\* inclusive or exclusive
MatchingRows(table, field, x, inclusive) ==
    {i \in DOMAIN table :
        IF inclusive THEN AtLeast(x, table[i][field]) ELSE Above(x, table[i][field])}

\* the score of the first matching row of a table scanned from its first row
\* (the most positive cutoff) to its last, or Null when no row matches
FirstMatchingRow(table, field, x, inclusive) ==
    LET rows == MatchingRows(table, field, x, inclusive)
    IN  IF rows = {} THEN Null
        ELSE Num(table[CHOOSE i \in rows : \A j \in rows : i <= j].score)

\* C22: the bucket functions are the threshold tables: calculate_btc_momentum
\* returns the score of the first row of BTC_MOMENTUM_THRESHOLDS that the 24h
\* change matches, and calculate_volume_health the score of the first row of
\* VOLUME_HEALTH_THRESHOLDS that the volume/cap ratio matches, the cutoffs
\* being read as inclusive or, at worst, as exclusive.
C22_BucketsAreTheTables ==
    /\ (probe.fn = "calculate_btc_momentum" /\ probe.ret # Null) =>
           \E inclusive \in BOOLEAN : \A i \in 1..2 :
               probe.ret[i] = FirstMatchingRow(BTC_MOMENTUM_THRESHOLDS, "min_change",
                                               <<probe.args[i], ChangeDen>>, inclusive)
    /\ (probe.fn = "calculate_volume_health" /\ probe.ret # Null) =>
           \E inclusive \in BOOLEAN : \A i \in 1..2 :
               probe.ret[i] = FirstMatchingRow(VOLUME_HEALTH_THRESHOLDS, "min_ratio",
                                               VolumeToMcapRatio(probe.args[i].volume,
                                                                 probe.args[i].cap),
                                               inclusive)

\* the 24h changes of the examples, in 1/ChangeDen percent
Example(percent) == percent * ChangeDen

\* a calculate_btc_momentum call on the 24h change of percent whole percent
\* (as its first argument) has returned
MomentumCalled(percent) ==
    /\ probe.fn = "calculate_btc_momentum"
    /\ probe.ret # Null
    /\ probe.args[1] = Example(percent)

\* C23: calculate_btc_momentum takes the example values: +12% gives 90, +6%
\* gives 75, 0% gives 55, -6% gives 25, and -15% gives 5 or 10.
C23_ExampleValues ==
    /\ MomentumCalled(12) => probe.ret[1] = Num(90)
    /\ MomentumCalled(6) => probe.ret[1] = Num(75)
    /\ MomentumCalled(0) => probe.ret[1] = Num(55)
    /\ MomentumCalled(0 - 6) => probe.ret[1] = Num(25)
    /\ MomentumCalled(0 - 15) => probe.ret[1] \in {Num(5), Num(10)}

\* C23, amended: as C23 but 0% gives 45 (the bucket above -2% and up to 0%);
\* 55 is the value of the changes above 0% and up to +2%, such as +1%.
C23_ExampleValuesZeroGives45 ==
    /\ MomentumCalled(12) => probe.ret[1] = Num(90)
    /\ MomentumCalled(6) => probe.ret[1] = Num(75)
    /\ MomentumCalled(0) => probe.ret[1] = Num(45)
    /\ MomentumCalled(1) => probe.ret[1] = Num(55)
    /\ MomentumCalled(0 - 6) => probe.ret[1] = Num(25)
    /\ MomentumCalled(0 - 15) => probe.ret[1] = Num(10)

C23_Witness == MomentumCalled(0) /\ probe.ret[1] = Num(45)


(***************************************************************************)
(* Claims about the component breakdown of calculate_risk_score            *)
(***************************************************************************)

\* the snapshot's fear & greed value: the field "value" of its fear_greed
\* dict, NoKey when the dict has no such field, Null when fear_greed is null
FearGreedCarried ==
    IF market_data.fear_greed = Null THEN Null ELSE market_data.fear_greed.value

\* the snapshot whose four inputs are all null
AllInputsNull ==
    [tag |-> "dict", fear_greed |-> Null, bitcoin |-> Null, global_market |-> Null,
     market_breadth |-> Null]

\* C24: fear & greed and market breadth pass unchanged into the component
\* breakdown.  In every breakdown reported (the call scored the snapshot
\* without an exception) a fear & greed value or a market breadth carried by
\* the snapshot, 0 included, is the reported component, and the component is
\* the default 50 exactly when the field is missing or null (or carries 50);
\* the snapshot whose four inputs are all null is scored on the normal path,
\* from the defaults, not by the exception fallback.
C24_PassThrough ==
    /\ (Returned /\ raised = "none") =>
           /\ IsNum(FearGreedCarried)
                  => result.components.fear_greed = FearGreedCarried.n
           /\ IsNum(market_data.market_breadth)
                  => result.components.market_breadth = market_data.market_breadth.n
           /\ result.components.fear_greed = 50
                  <=> FearGreedCarried \in {Null, NoKey, Num(50)}
           /\ result.components.market_breadth = 50
                  <=> market_data.market_breadth \in {Null, Num(50)}
    /\ (market_data = AllInputsNull /\ (Returned \/ raised # "none")) =>
           /\ raised = "none"
           /\ result.components = [fear_greed |-> 50, btc_momentum |-> 45,
                                   volume_health |-> 35, market_breadth |-> 50]

\* C24 witness: a snapshot carrying a fear & greed value of 0 and a breadth of
\* 0 was scored, and both components are 0.
C24_Witness ==
    /\ Returned
    /\ raised = "none"
    /\ FearGreedCarried = Num(0)
    /\ market_data.market_breadth = Num(0)
    /\ result.components.fear_greed = 0
    /\ result.components.market_breadth = 0

\* C24 witness: the all-null snapshot was scored on the normal path.
C24_WitnessAllNull == market_data = AllInputsNull /\ Returned /\ raised = "none"


(***************************************************************************)
(* Claims about the snapshot served when a fetch fails, under SpecFetch    *)
(***************************************************************************)

\* C25: once a fetch_all_data call has succeeded fully (in this fetcher, or in
\* an earlier run whose snapshot is intact in the cache file while this
\* fetcher's memory is empty), every later call that returns with a null
\* critical value returns the five values of the most recent fully successful
\* call, with using_cache True.
C25_ServesMostRecentSuccess ==
    (FetchReturned /\ SomeCriticalNull /\ call.last_full # Null) =>
        /\ Values(call.results) = call.last_full
        /\ call.results.using_cache = PyBool(TRUE)


(***************************************************************************)
(* Claims about the history as an append-and-prune log, under SpecHist     *)
(***************************************************************************)

\* the entries of a history that lie within the last 90 days at time now:
\* those less than MAX_HISTORY_DAYS days old
WithinLast90Days(history, now) ==
    SelectSeq(history,
              LAMBDA h : now - fromisoformat(h.timestamp) < Days(MAX_HISTORY_DAYS))

\* a save_score call that completes
SaveStep == saves' = saves + 1 /\ last_save'.exc = "none"

\* C26: a save_score call leaves every stored entry less than 90 days old
\* present, unmodified and in the same relative order, and places the new
\* entry after all of them: the list written is the list of those entries, in
\* their order, followed by the new entry.
C26_AppendAndPrune ==
    [][SaveStep =>
          HistoryOnDisk' = WithinLast90Days(HistoryOnDisk, clock) \o <<last_save'.entry>>]_vars

\* C26 witness: a save completed that kept two older entries and dropped
\* another (fewer entries are stored than saves were made).
C26_Witness ==
    /\ SaveCompleted
    /\ clock = last_save.time
    /\ Len(HistoryOnDisk) = 3
    /\ saves > 3
    /\ HistoryOnDisk[3] = last_save.entry
    /\ HistoryOnDisk[1].timestamp # HistoryOnDisk[2].timestamp

\* C27: after save_score returns, and until the next write, the entry just
\* saved is the last element of the persisted list and the 'now' slot of
\* get_historical_values is exactly that entry.
C27_NowIsEntryJustSaved ==
    SaveCompleted =>
        /\ HistoryOnDisk # <<>>
        /\ HistoryOnDisk[Len(HistoryOnDisk)] = last_save.entry
        /\ Read("get_historical_values") => ret.value.now = last_save.entry

\* C27 witness: an entry was saved into a history that held a different entry,
\* time passed, and the slots were read.
C27_Witness ==
    /\ SaveCompleted
    /\ Read("get_historical_values")
    /\ clock > last_save.time
    /\ Len(HistoryOnDisk) >= 2
    /\ HistoryOnDisk[1] # last_save.entry
    /\ ret.value.now = last_save.entry

\* the timestamps of a history are pairwise distinct
DistinctTimestamps(history) ==
    \A i, j \in 1..Len(history) :
        i # j => history[i].timestamp # history[j].timestamp

\* the slots in their fixed order
SlotOrder == <<"now", "yesterday", "last_week", "last_month">>

\* C28: for a history of n entries with pairwise distinct timestamps,
\* get_historical_values fills exactly min(n, 4) slots, and they are the first
\* min(n, 4) of now, yesterday, last_week, last_month.
C28_FillsFirstSlots ==
    (Read("get_historical_values") /\ DistinctTimestamps(HistoryOnDisk)) =>
        LET n == Len(HistoryOnDisk)
            filled == IF n < 4 THEN n ELSE 4
        IN  FilledSlots(ret.value) = {SlotOrder[i] : i \in 1..filled}

\* C28 witness: three entries with distinct timestamps; now, yesterday and
\* last_week are filled and last_month is null.
C28_Witness ==
    /\ Read("get_historical_values")
    /\ DistinctTimestamps(HistoryOnDisk)
    /\ Len(HistoryOnDisk) = 3
    /\ FilledSlots(ret.value) = {"now", "yesterday", "last_week"}

\* C29: the slots returned by get_historical_values are in chronological
\* order: of two non-null slots, the one earlier in the order now, yesterday,
\* last_week, last_month does not hold an older entry than the later one.
C29_SlotsChronological ==
    Read("get_historical_values") =>
        \A i, j \in 1..4 :
            (/\ i < j
             /\ ret.value[SlotOrder[i]] # Null
             /\ ret.value[SlotOrder[j]] # Null)
            => fromisoformat(ret.value[SlotOrder[i]].timestamp)
                   >= fromisoformat(ret.value[SlotOrder[j]].timestamp)

\* C30: save_score on a history file that is missing or cannot be parsed (text
\* that is not JSON, bytes that are not text) does not raise and leaves the
\* file holding exactly one entry, the new one.
C30_SaveOnUnusableFile ==
    [][(file.kind \in UnusableKinds /\ saves' = saves + 1) =>
          /\ last_save'.exc = "none"
          /\ file' = JsonDump(<<last_save'.entry>>)]_vars

=============================================================================
